---------------------------- MODULE Spec2Model ----------------------------
(***************************************************************************)
(* A model of repoproxyd (src/repoproxyd.go, src/repoproxy.sql): a caching *)
(* gateway.  Every inbound request runs mainHandler in a goroutine of its  *)
(* own; the handlers share the cacheitem table (Metadata Index), the       *)
(* cache directory (Blob Store) and the upstream server.                   *)
(*                                                                         *)
(* Strings that the code inspects (URL paths, header values, file paths)   *)
(* are sequences of one-character strings, so that TrimPrefix, SplitN,     *)
(* ParseInt, Dir and Join are computed as the code computes them.          *)
(* The inbound requests of the model are plain GET requests: no Range and  *)
(* no If-... header, so that http.ServeFile answers with the whole file.   *)
(* Not modelled: the Content-Type header (mimeType), log output, sentry,   *)
(* the updatedate column (NOW()), and the text of error bodies.            *)
(***************************************************************************)
EXTENDS Integers, Sequences, FiniteSets, TLC

----------------------------------------------------------------------------
(* Bounds of the model.                                                    *)

\* Number of inbound requests (goroutines running mainHandler) in one run.
MaxReq == 2

\* Number of times the upstream replaces the file while the run lasts.
MaxChanges == 1

Requests == 1..MaxReq

----------------------------------------------------------------------------
(* String helpers: package strings, strconv, path/filepath.                *)

HasPrefix(s, p) == Len(s) >= Len(p) /\ SubSeq(s, 1, Len(p)) = p

HasSuffix(s, p) == Len(s) >= Len(p) /\ SubSeq(s, Len(s) - Len(p) + 1, Len(s)) = p

\* strings.TrimPrefix: s without the leading p, or s itself.
TrimPrefix(s, p) == IF HasPrefix(s, p) THEN SubSeq(s, Len(p) + 1, Len(s)) ELSE s

\* strings.TrimSuffix: s without the trailing p, or s itself.
TrimSuffix(s, p) == IF HasSuffix(s, p) THEN SubSeq(s, 1, Len(s) - Len(p)) ELSE s

\* Index of the first c in s, 0 when there is none.
IndexOf(s, c) ==
    IF \E i \in 1..Len(s) : s[i] = c
    THEN CHOOSE i \in 1..Len(s) : s[i] = c /\ \A j \in 1..(i - 1) : s[j] # c
    ELSE 0

\* Index of the last c in s, 0 when there is none.
LastIndexOf(s, c) ==
    IF \E i \in 1..Len(s) : s[i] = c
    THEN CHOOSE i \in 1..Len(s) : s[i] = c /\ \A j \in (i + 1)..Len(s) : s[j] # c
    ELSE 0

\* strings.SplitN(s, "/", 2): at most two parts, split at the first "/".
SplitN2(s) ==
    LET i == IndexOf(s, "/")
    IN IF i = 0 THEN <<s>>
       ELSE <<SubSeq(s, 1, i - 1), SubSeq(s, i + 1, Len(s))>>

Digits == <<"0", "1", "2", "3", "4", "5", "6", "7", "8", "9">>

IsDigit(c) == \E d \in 1..10 : Digits[d] = c

DigitVal(c) == (CHOOSE d \in 1..10 : Digits[d] = c) - 1

RECURSIVE DigitsValue(_)
DigitsValue(s) ==
    IF s = <<>> THEN 0
    ELSE 10 * DigitsValue(SubSeq(s, 1, Len(s) - 1)) + DigitVal(s[Len(s)])

\* strconv.ParseInt(s, 10, 64) with the error dropped, as the handler calls
\* it: an optional sign and decimal digits; anything else (the empty string
\* too) is a syntax error and yields 0.  The header values of the model are
\* short, so the range error of values beyond 64 bits does not arise.
ParseInt(s) ==
    LET signed == s # <<>> /\ s[1] \in {"+", "-"}
        ds == IF signed THEN Tail(s) ELSE s
    IN IF ds = <<>> \/ \E i \in 1..Len(ds) : ~IsDigit(ds[i]) THEN 0
       ELSE IF signed /\ s[1] = "-" THEN 0 - DigitsValue(ds)
       ELSE DigitsValue(ds)

\* strings.Split(s, "/"): the elements between the separators (one element
\* more than there are separators; elements may be empty).
RECURSIVE SplitPath(_)
SplitPath(s) ==
    LET i == IndexOf(s, "/")
    IN IF i = 0 THEN <<s>>
       ELSE <<SubSeq(s, 1, i - 1)>> \o SplitPath(SubSeq(s, i + 1, Len(s)))

\* strings.Join(elems, "/").
RECURSIVE JoinPath(_)
JoinPath(elems) ==
    IF elems = <<>> THEN <<>>
    ELSE IF Len(elems) = 1 THEN elems[1]
    ELSE elems[1] \o <<"/">> \o JoinPath(Tail(elems))

\* The elements filepath.Clean keeps, left to right: empty and "." elements
\* are dropped, ".." removes the element before it, is dropped at the root
\* of a rooted path and is kept at the start of a relative one.
RECURSIVE CleanElems(_, _, _)
CleanElems(elems, kept, rooted) ==
    IF elems = <<>> THEN kept
    ELSE LET e == Head(elems)
             rest == Tail(elems)
         IN IF e = <<>> \/ e = <<".">> THEN CleanElems(rest, kept, rooted)
            ELSE IF e = <<".", ".">>
            THEN IF kept # <<>> /\ kept[Len(kept)] # <<".", ".">>
                 THEN CleanElems(rest, SubSeq(kept, 1, Len(kept) - 1), rooted)
                 ELSE IF rooted THEN CleanElems(rest, kept, rooted)
                 ELSE CleanElems(rest, Append(kept, e), rooted)
            ELSE CleanElems(rest, Append(kept, e), rooted)

\* filepath.Clean (Unix): the shortest equivalent path; "." for the empty
\* path, no trailing separator but for the root.
Clean(p) ==
    LET rooted == p # <<>> /\ p[1] = "/"
        kept == CleanElems(SplitPath(p), <<>>, rooted)
    IN IF rooted THEN <<"/">> \o JoinPath(kept)
       ELSE IF kept = <<>> THEN <<".">>
       ELSE JoinPath(kept)

\* filepath.Dir: Clean of everything up to and including the last
\* separator.
Dir(p) == Clean(SubSeq(p, 1, LastIndexOf(p, "/")))

\* filepath.Join(elems...): Clean of the elements from the first non-empty
\* one on, joined by "/"; "" when every element is empty.
FilepathJoin(elems) ==
    IF \A i \in 1..Len(elems) : elems[i] = <<>> THEN <<>>
    ELSE LET first == CHOOSE i \in 1..Len(elems) :
                          elems[i] # <<>> /\ \A j \in 1..(i - 1) : elems[j] = <<>>
         IN Clean(JoinPath(SubSeq(elems, first, Len(elems))))

Join(a, b, c) == FilepathJoin(<<a, b, c>>)

----------------------------------------------------------------------------
(* Configuration and the repomap table.                                    *)

\* defaultCacheDir = "/cache" (CACHE_DIR unset).
cacheDir == <<"/", "c", "a", "c", "h", "e">>

Pkgs == <<"p", "k", "g", "s">>

\* The rows of repomap (reponame unique): one repository, whose base URL
\* carries a trailing slash.
repomap == { [reponame |-> Pkgs, baseurl |-> <<"h", ":", "/", "/", "u", "/">>] }

\* The request paths of the model: /r/pkgs/a, a file of the mapped
\* repository; /r/foo/a, the same path under a repository that is not
\* mapped; and /r/foo, a path with no separator after the repository.
URLPaths ==
    { <<"/", "r", "/", "p", "k", "g", "s", "/", "a">>,
      <<"/", "r", "/", "f", "o", "o", "/", "a">>,
      <<"/", "r", "/", "f", "o", "o">> }

\* mainHandler's split of r.URL.Path.
PathParts(url) == SplitN2(TrimPrefix(url, <<"/", "r", "/">>))

RepoName(url) == PathParts(url)[1]

\* rest := path[1], which panics (index out of range) when the split gave
\* one part only.
HasRest(url) == Len(PathParts(url)) >= 2

Rest(url) == PathParts(url)[2]

\* fmt.Sprintf("%s/%s", TrimSuffix(remoteBase, "/"), rest)
TargetUrl(remoteBase, rest) == TrimSuffix(remoteBase, <<"/">>) \o <<"/">> \o rest

----------------------------------------------------------------------------
(* The upstream server: the file behind a target URL is in one of two      *)
(* versions, and the upstream replaces one by the other (a release, a      *)
(* rollback).  A version fixes the body and the validators the server      *)
(* sends with it.                                                          *)

Versions == {1, 2}

\* The body, in the chunks io.Copy moves; no chunk is 0, which stands for
\* a byte of a hole in a file.
Body(v) == IF v = 1 THEN <<10 * v + 1, 10 * v + 2>> ELSE <<10 * v + 1>>

\* Version 2 carries a weak entity tag.
UpEtag(v) ==
    IF v = 2 THEN <<"W", "/", "e", Digits[v + 1]>> ELSE <<"e", Digits[v + 1]>>

\* The two versions share their modification time.
UpLastMod(v) == <<"d", "1">>

UpContentLength(v) == <<Digits[Len(Body(v)) + 1]>>

\* What a HEAD of version v answers.
HeadResponse(v) ==
    [lastMod |-> UpLastMod(v), contentLength |-> UpContentLength(v), etag |-> UpEtag(v)]

\* What a GET of version v answers with the given status; version 2 is
\* as a rule sent without a Content-Length header (chunked).
GetResponse(v, status) ==
    [status |-> status,
     lastMod |-> UpLastMod(v),
     etag |-> UpEtag(v),
     contentLength |-> IF v = 2 THEN <<>> ELSE UpContentLength(v),
     body |-> Body(v)]

\* The answers a GET of version v may get with the given status: the server
\* sends the body chunked (no Content-Length header) or, when it could
\* measure it first, with the header.
GetResponses(v, status) ==
    { GetResponse(v, status),
      [GetResponse(v, status) EXCEPT !.contentLength = UpContentLength(v)] }

\* The statuses a GET is answered with.
GetStatuses == {200, 400, 503}

NoResp == [status |-> 0, lastMod |-> <<>>, etag |-> <<>>, contentLength |-> <<>>, body |-> <<>>]


\* http.StatusBadRequest, http.StatusNotFound, http.StatusInternalServerError
\* and the 200 of an answer that was written without an explicit status.
StatusBadRequest == 400

StatusForbidden == 403

StatusNotFound == 404

StatusInternalServerError == 500

StatusOK == 200

StatusMovedPermanently == 301

----------------------------------------------------------------------------
(* State.                                                                  *)

VARIABLES
    warm,       \* whether the server started with a cached file (never changes)
    upstream,   \* target URL -> the version the upstream serves now
    changes,    \* how many times the upstream has replaced a file
    cacheitem,  \* the rows of table cacheitem
    nextRowid,  \* the bigserial sequence behind cacheitem.rowid
    files,      \* the regular files under cacheDir: path -> content
    dirs,       \* the directories under cacheDir that exist
    pc,         \* request -> where its mainHandler stands
    loc,        \* request -> the local variables of its mainHandler
    client,     \* request -> what its client has received: status and body
    contacts    \* request -> the upstream calls it has made: HEADs, GETs, and
                \* the status its last GET was answered with (0: none)

vars == <<warm, upstream, changes, cacheitem, nextRowid, files, dirs, pc, loc, client, contacts>>

\* A path that holds no file reads as NoBlob (no chunk is negative).
NoBlob == <<-1>>

Blob(fs, path) == IF path \in DOMAIN fs THEN fs[path] ELSE NoBlob

\* The locals of mainHandler (and of itemInCache and updateCache, which it
\* calls), at their zero values.
InitLoc ==
    [url |-> <<>>,
     repoName |-> <<>>, rest |-> <<>>,
     remoteBase |-> <<>>, targetUrl |-> <<>>,
     lastMod |-> <<>>, contentLength |-> 0, etag |-> <<>>,
     cachePath |-> <<>>,
     scanned |-> FALSE, cachedLastMod |-> <<>>, cachedFileSize |-> 0, cachedEtag |-> <<>>,
     inCache |-> FALSE,
     respGet |-> NoResp,
     openPath |-> <<>>,
     size |-> 0,
     written |-> 0,
     count |-> 0,
     execOk |-> FALSE, rowid |-> 0, targets |-> {}, after |-> {}]

\* The handler positions after which mainHandler has returned.
Terminal ==
    {"panicked", "not_found", "head_failed", "served", "serve_aborted", "get_failed", "upstream_error",
     "create_failed", "stream_failed", "persisted", "persist_failed"}

\* The target URLs the mapped repositories and the request paths give.
Targets ==
    { TargetUrl(m.baseurl, Rest(u)) :
        <<m, u>> \in { x \in repomap \X URLPaths :
                          HasRest(x[2]) /\ RepoName(x[2]) = x[1].reponame } }

----------------------------------------------------------------------------
(* Helpers of the actions.                                                 *)

\* mainHandler returns: its locals are gone, the request path is kept to
\* tell which key the request was for.
Return(r, at) ==
    /\ pc' = [pc EXCEPT ![r] = at]
    /\ loc' = [loc EXCEPT ![r] = [InitLoc EXCEPT !.url = loc[r].url]]

\* http.Error(w, ..., status): an answer with that status and no blob bytes.
HttpError(r, status) == client' = [client EXCEPT ![r] = [status |-> status, body |-> <<>>]]

\* The rows SELECT ... WHERE reponame = $1 AND pathname = $2 ranges over.
ItemRows(rows, repo, itemPath) ==
    { row \in rows : row.reponame = repo /\ row.pathname = itemPath }

\* The comparison of itemInCache.
CacheMatch(cachedLastMod, cachedFileSize, cachedEtag, lastMod, fileSize, etag) ==
    cachedLastMod = lastMod /\ cachedFileSize = fileSize /\ cachedEtag = etag

\* A write of one chunk at offset off of a file: the bytes between the end
\* of the file and the offset, if any, read as 0.
RECURSIVE Zeros(_)
Zeros(n) == IF n <= 0 THEN <<>> ELSE <<0>> \o Zeros(n - 1)

WriteAt(content, off, chunk) ==
    IF off >= Len(content)
    THEN content \o Zeros(off - Len(content)) \o <<chunk>>
    ELSE SubSeq(content, 1, off) \o <<chunk>> \o SubSeq(content, off + 2, Len(content))

\* The descriptor with the size always taken from the probe.
ResolveDescriptorSizeFromProbe(respGet, contentLength) ==
    [lastMod |-> respGet.lastMod,
     fileSize |-> contentLength,
     etag |-> TrimPrefix(respGet.etag, <<"W", "/">>)]

\* The descriptor mainHandler hands to updateCache.
ResolveDescriptor(respGet, contentLength) ==
    [lastMod |-> respGet.lastMod,
     fileSize |-> IF respGet.contentLength = <<>> THEN contentLength
                  ELSE ParseInt(respGet.contentLength),
     etag |-> TrimPrefix(respGet.etag, <<"W", "/">>)]

\* The table with the row an INSERT of updateCache adds, under the rowid
\* the statement took from the sequence.
InsertRow(rows, rowid, repo, itemPath, d) ==
    rows \cup { [rowid |-> rowid, reponame |-> repo, pathname |-> itemPath,
                 lastmodified |-> d.lastMod, filesize |-> d.fileSize, etag |-> d.etag] }

\* The table with the rows an UPDATE of updateCache rewrote: those the
\* statement found when it was executed.
UpdateRows(rows, targets, d) ==
    { IF row.rowid \in targets
      THEN [row EXCEPT !.lastmodified = d.lastMod, !.filesize = d.fileSize, !.etag = d.etag]
      ELSE row : row \in rows }

\* A clean path and the directories above it, the root left out.
PathPrefixes(p) ==
    { SubSeq(p, 1, i - 1) : i \in { j \in 2..Len(p) : p[j] = "/" } } \cup {p}

\* os.MkdirAll(path): what it returns and the directories there are
\* afterwards.  A path that is a directory already is a success, unless it
\* cannot be reached (a directory above it cannot be searched, an I/O
\* error: Stat, Mkdir and Lstat all fail); a file at the path or above it
\* is an error; otherwise the missing directories are made from the top
\* down, all of them, or those down to some level when a Mkdir fails.
MkdirAll(ds, fs, path) ==
    IF path \in ds THEN { [ok |-> TRUE, dirs |-> ds], [ok |-> FALSE, dirs |-> ds] }
    ELSE IF \E q \in PathPrefixes(path) : q \in DOMAIN fs
    THEN { [ok |-> FALSE, dirs |-> ds] }
    ELSE { [ok |-> TRUE, dirs |-> ds \cup PathPrefixes(path)] }
         \cup { [ok |-> FALSE,
                 dirs |-> ds \cup { q \in PathPrefixes(path) : Len(q) <= n }] :
                 n \in { Len(q) : q \in PathPrefixes(path) \ {path} } \cup {0} }

----------------------------------------------------------------------------
(* The initial states.                                                     *)

\* The request path of the file the cache may hold when the server starts.
WarmUrl == <<"/", "r", "/", "p", "k", "g", "s", "/", "a">>

\* The server starts with the upstream at its first version and the cache
\* (which outlives the process) either empty (the cache directory is there,
\* nothing in it) or as one earlier MISS run for WarmUrl left it: the
\* directories, the complete blob and the descriptor.
Init ==
    /\ upstream = [t \in Targets |-> 1]
    /\ changes = 0
    /\ warm \in BOOLEAN
    /\ IF warm
       THEN LET repo == RepoName(WarmUrl)
                itemPath == Rest(WarmUrl)
                respHead == HeadResponse(1)
                respGet == GetResponse(1, StatusOK)
            IN /\ cacheitem = InsertRow({}, 1, repo, itemPath,
                                         ResolveDescriptor(respGet, ParseInt(respHead.contentLength)))
               /\ nextRowid = 2
               /\ files = (Join(cacheDir, repo, itemPath) :> respGet.body)
               /\ dirs = PathPrefixes(Join(cacheDir, repo, Dir(itemPath)))
       ELSE /\ cacheitem = {}
            /\ nextRowid = 1
            /\ files = <<>>
            /\ dirs = {cacheDir}
    /\ pc = [r \in Requests |-> "start"]
    /\ loc = [r \in Requests |-> InitLoc]
    /\ client = [r \in Requests |-> [status |-> 0, body |-> <<>>]]
    /\ contacts = [r \in Requests |-> [head |-> 0, get |-> 0, status |-> 0]]

\* The server starting on a cache that was changed behind it (the table and
\* the directory outlive the process and are open to other hands): the
\* descriptor of WarmUrl is in the index and its directories are there, the
\* blob has been removed.
InitBlobRemoved ==
    /\ upstream = [t \in Targets |-> 1]
    /\ changes = 0
    /\ warm = FALSE
    /\ LET repo == RepoName(WarmUrl)
           itemPath == Rest(WarmUrl)
           respHead == HeadResponse(1)
           respGet == GetResponse(1, StatusOK)
       IN /\ cacheitem = InsertRow({}, 1, repo, itemPath,
                                    ResolveDescriptor(respGet, ParseInt(respHead.contentLength)))
          /\ nextRowid = 2
          /\ files = <<>>
          /\ dirs = PathPrefixes(Join(cacheDir, repo, Dir(itemPath)))
    /\ pc = [r \in Requests |-> "start"]
    /\ loc = [r \in Requests |-> InitLoc]
    /\ client = [r \in Requests |-> [status |-> 0, body |-> <<>>]]
    /\ contacts = [r \in Requests |-> [head |-> 0, get |-> 0, status |-> 0]]

----------------------------------------------------------------------------
(* mainHandler, one action per access to shared state.                     *)

\* A request arrives (requests are numbered in the order they arrive); the
\* handler splits the path, takes path[0] and path[1], and looks the
\* repository up (getRepoMap).  A path that gave one part only panics at
\* path[1]: net/http recovers the panic and closes the connection, and the
\* client gets no answer.  No row, or a failed query, answers 404.
Route(r) ==
    /\ pc[r] = "start"
    /\ IF r = 1 THEN TRUE ELSE pc[r - 1] # "start"
    /\ \E url \in URLPaths :
         IF ~HasRest(url)
         THEN /\ pc' = [pc EXCEPT ![r] = "panicked"]
              /\ loc' = [loc EXCEPT ![r].url = url]
              /\ UNCHANGED client
         ELSE \E queryOk \in BOOLEAN :
                LET rows == { m \in repomap : m.reponame = RepoName(url) }
                IN IF queryOk /\ rows # {}
                   THEN /\ pc' = [pc EXCEPT ![r] = "routed"]
                        /\ loc' = [loc EXCEPT
                                     ![r].url = url,
                                     ![r].repoName = RepoName(url),
                                     ![r].rest = Rest(url),
                                     ![r].remoteBase =
                                         TrimSuffix((CHOOSE m \in rows : TRUE).baseurl, <<"/">>),
                                     ![r].targetUrl =
                                         TargetUrl((CHOOSE m \in rows : TRUE).baseurl, Rest(url))]
                        /\ UNCHANGED client
                   ELSE /\ pc' = [pc EXCEPT ![r] = "not_found"]
                        /\ loc' = [loc EXCEPT ![r].url = url]
                        /\ HttpError(r, StatusNotFound)
    /\ UNCHANGED <<warm, upstream, changes, cacheitem, nextRowid, files, dirs, contacts>>

\* mainHandler going on after a failed httpClient.Head, with no headers.
ProbeIgnoringError(r) ==
    /\ pc[r] = "routed"
    /\ contacts' = [contacts EXCEPT ![r].head = @ + 1]
    /\ \E transportOk \in BOOLEAN :
         LET respHead == IF transportOk
                         THEN HeadResponse(upstream[loc[r].targetUrl])
                         ELSE [lastMod |-> <<>>, contentLength |-> <<>>, etag |-> <<>>]
         IN /\ pc' = [pc EXCEPT ![r] = "probed"]
            /\ loc' = [loc EXCEPT ![r].lastMod = respHead.lastMod,
                                  ![r].contentLength = ParseInt(respHead.contentLength),
                                  ![r].etag = respHead.etag]
    /\ UNCHANGED <<warm, upstream, changes, cacheitem, nextRowid, files, dirs, client>>

\* httpClient.Head(targetUrl): the probe.  A transport failure answers 500.
Probe(r) ==
    /\ pc[r] = "routed"
    /\ contacts' = [contacts EXCEPT ![r].head = @ + 1]
    /\ \E transportOk \in BOOLEAN :
         IF transportOk
         THEN LET respHead == HeadResponse(upstream[loc[r].targetUrl])
              IN /\ pc' = [pc EXCEPT ![r] = "probed"]
                 /\ loc' = [loc EXCEPT ![r].lastMod = respHead.lastMod,
                                       ![r].contentLength = ParseInt(respHead.contentLength),
                                       ![r].etag = respHead.etag]
                 /\ UNCHANGED client
         ELSE /\ Return(r, "head_failed")
              /\ HttpError(r, StatusInternalServerError)
    /\ UNCHANGED <<warm, upstream, changes, cacheitem, nextRowid, files, dirs>>

\* The request paths that have a repository and a rest.
RoutablePaths == { u \in URLPaths : HasRest(u) }

\* prepareCacheDir's filepath.Join(cacheDir, repo, filepath.Dir(itemPath))
\* for each of these request paths.
CacheDirFullPath ==
    [u \in RoutablePaths |-> Join(cacheDir, RepoName(u), Dir(Rest(u)))]

\* prepareCacheDir's filepath.Join(cacheDir, repo, itemPath) for each of
\* these request paths.
CachePath == [u \in RoutablePaths |-> Join(cacheDir, RepoName(u), Rest(u))]

\* prepareCacheDir: MkdirAll of the directory of the item, then the path
\* of the item; on failure cachePath stays "".
PrepareCacheDir(r) ==
    /\ pc[r] = "probed"
    /\ \E made \in MkdirAll(dirs, files, CacheDirFullPath[loc[r].url]) :
         /\ dirs' = made.dirs
         /\ loc' = [loc EXCEPT ![r].cachePath =
                      IF made.ok THEN CachePath[loc[r].url] ELSE <<>>]
    /\ pc' = [pc EXCEPT ![r] = "prepared"]
    /\ UNCHANGED <<warm, upstream, changes, cacheitem, nextRowid, files, client, contacts>>

\* itemInCache's error handed to the client: a lookup that finds no row or
\* fails ends the request with 500.
ItemInCacheSurfacingError(r) ==
    /\ pc[r] = "prepared"
    /\ LET rows == ItemRows(cacheitem, loc[r].repoName, loc[r].rest)
       IN \/ \E row \in rows :
               /\ loc' = [loc EXCEPT
                            ![r].scanned = TRUE,
                            ![r].cachedLastMod = row.lastmodified,
                            ![r].cachedFileSize = row.filesize,
                            ![r].cachedEtag = row.etag,
                            ![r].inCache = CacheMatch(row.lastmodified, row.filesize, row.etag,
                                                      loc[r].lastMod, loc[r].contentLength, loc[r].etag)]
               /\ pc' = [pc EXCEPT ![r] = "looked"]
               /\ UNCHANGED client
          \/ /\ Return(r, "get_failed")
             /\ HttpError(r, StatusInternalServerError)
    /\ UNCHANGED <<warm, upstream, changes, cacheitem, nextRowid, files, dirs, contacts>>

\* itemInCache: QueryRow scans one of the rows of the key (no ORDER BY: any
\* of them), or fails (no row, or a database error) and reports false.
ItemInCache(r) ==
    /\ pc[r] = "prepared"
    /\ LET rows == ItemRows(cacheitem, loc[r].repoName, loc[r].rest)
       IN \/ \E row \in rows :
               loc' = [loc EXCEPT
                         ![r].scanned = TRUE,
                         ![r].cachedLastMod = row.lastmodified,
                         ![r].cachedFileSize = row.filesize,
                         ![r].cachedEtag = row.etag,
                         ![r].inCache = CacheMatch(row.lastmodified, row.filesize, row.etag,
                                                   loc[r].lastMod, loc[r].contentLength, loc[r].etag)]
          \/ loc' = [loc EXCEPT ![r].scanned = FALSE, ![r].inCache = FALSE]
    /\ pc' = [pc EXCEPT ![r] = "looked"]
    /\ UNCHANGED <<warm, upstream, changes, cacheitem, nextRowid, files, dirs, client, contacts>>

\* os.Stat(path): the errors it can return, "nil" for none.  Stat of ""
\* is ENOENT.  A file or a directory at the path is found, unless the call
\* fails otherwise (EACCES: a directory above it cannot be searched; an I/O
\* error).  With nothing at the path the error is ENOTDIR when a file is in
\* the way above it, else ENOENT, or again one of the other errors.
Stat(fs, ds, path) ==
    IF path = <<>> THEN {"ENOENT"}
    ELSE IF path \in DOMAIN fs \cup ds THEN {"nil", "EACCES"}
    ELSE IF \E q \in PathPrefixes(path) : q \in DOMAIN fs THEN {"ENOTDIR", "EACCES"}
    ELSE {"ENOENT", "EACCES"}

\* os.IsNotExist(err)
IsNotExist(err) == err = "ENOENT"

\* The condition of the HIT branch: !os.IsNotExist(err) && inCache.
IsHit(err, inCache) == ~IsNotExist(err) /\ inCache

\* os.Stat(cachePath) and the decision.  A HIT goes on to http.ServeFile; a
\* MISS goes on to the full fetch (what itemInCache scanned went out of
\* scope when it returned).
Classify(r) ==
    /\ pc[r] = "looked"
    /\ \E err \in Stat(files, dirs, loc[r].cachePath) :
         IF IsHit(err, loc[r].inCache)
         THEN /\ pc' = [pc EXCEPT ![r] = "hit"]
              /\ UNCHANGED loc
         ELSE /\ pc' = [pc EXCEPT ![r] = "miss"]
              /\ loc' = [loc EXCEPT ![r].scanned = FALSE,
                                    ![r].cachedLastMod = <<>>,
                                    ![r].cachedFileSize = 0,
                                    ![r].cachedEtag = <<>>]
    /\ UNCHANGED <<warm, upstream, changes, cacheitem, nextRowid, files, dirs, client, contacts>>

\* mainHandler without the return after http.ServeFile: when the file has
\* been served the handler goes on to the full fetch.
ServeDoneWithoutReturn(r) ==
    /\ pc' = [pc EXCEPT ![r] = "miss"]
    /\ UNCHANGED loc

\* http.ServeFile has sent the file and mainHandler returns.
ServeDone(r) == Return(r, "served")

\* net/http's containsDotDot: whether a URL path has ".." as one of the
\* fields its slashes and backslashes separate.
ContainsDotDot(url) ==
    LET slashed == [i \in 1..Len(url) |-> IF url[i] = "\\" THEN "/" ELSE url[i]]
    IN \E i \in 1..Len(SplitPath(slashed)) : SplitPath(slashed)[i] = <<".", ".">>

IndexHtml == <<"/", "i", "n", "d", "e", "x", ".", "h", "t", "m", "l">>

\* The statuses net/http's toHTTPError gives a failed open or stat: 404 for
\* a file that is not there, 403 for a missing permission, 500 otherwise.
OpenErrorStatuses == {StatusNotFound, StatusForbidden, StatusInternalServerError}

\* http.ServeFile, up to the headers.  A URL path with a ".." element is
\* answered 400 and one ending in /index.html is redirected (301).  Else
\* the file is opened; a failed open or stat is answered with its error
\* status.  A directory is redirected (301) when the URL path does not end
\* in a slash; else its index.html is sent, or a listing of it, which holds
\* no blob bytes.  The size the file has now is what the answer declares
\* and what will be sent at most.
ServeOpen(r) ==
    /\ pc[r] = "hit"
    /\ LET url == loc[r].url
           name == loc[r].cachePath
           isDir == name \in dirs
           index == TrimSuffix(name, <<"/">>) \o IndexHtml
           path == IF ~isDir THEN name
                   ELSE IF index \in DOMAIN files THEN index
                   ELSE <<>>
       IN IF ContainsDotDot(url)
          THEN HttpError(r, StatusBadRequest) /\ ServeDone(r)
          ELSE IF HasSuffix(url, IndexHtml)
          THEN HttpError(r, StatusMovedPermanently) /\ ServeDone(r)
          ELSE \/ \E status \in OpenErrorStatuses :
                     /\ HttpError(r, status)
                     /\ ServeDone(r)
               \/ /\ isDir
                  /\ url[Len(url)] # "/"
                  /\ HttpError(r, StatusMovedPermanently)
                  /\ ServeDone(r)
               \/ /\ name \in DOMAIN files \/ (isDir /\ url[Len(url)] = "/")
                  /\ client' = [client EXCEPT ![r] = [status |-> StatusOK, body |-> <<>>]]
                  /\ IF path = <<>> \/ Len(Blob(files, path)) = 0
                     THEN ServeDone(r)
                     ELSE /\ pc' = [pc EXCEPT ![r] = "serving"]
                          /\ loc' = [loc EXCEPT ![r].openPath = path,
                                                ![r].size = Len(files[path]),
                                                ![r].written = 0]
    /\ UNCHANGED <<warm, upstream, changes, cacheitem, nextRowid, files, dirs, contacts>>

\* http.ServeFile, one round of its io.CopyN: a chunk is read from the open
\* file at the read offset, as the file is now, and written to the client.
\* The copy ends when the declared size has been sent, at the end of the
\* file when the file has become shorter, or when the client has gone; in
\* each case mainHandler returns.
ServeRead(r) ==
    /\ pc[r] = "serving"
    /\ LET content == files[loc[r].openPath]
           off == loc[r].written
       IN \/ IF off >= Len(content)
             THEN ServeDone(r) /\ UNCHANGED client
             ELSE /\ client' = [client EXCEPT ![r].body = Append(@, content[off + 1])]
                  /\ IF off + 1 = loc[r].size
                     THEN ServeDone(r)
                     ELSE /\ loc' = [loc EXCEPT ![r].written = off + 1]
                          /\ UNCHANGED pc
          \/ /\ Return(r, "serve_aborted")
             /\ UNCHANGED client
    /\ UNCHANGED <<warm, upstream, changes, cacheitem, nextRowid, files, dirs, contacts>>

\* The check of the GET's status with > for >=.
IsUpstreamErrorAbove(status) == status > StatusBadRequest

\* The check of the GET's status.
IsUpstreamError(status) == status >= StatusBadRequest

\* mainHandler going from a successful httpClient.Get straight to
\* updateCache, with no os.Create and no io.Copy.
FetchWithoutStore(r) ==
    /\ pc[r] = "miss"
    /\ \/ /\ Return(r, "get_failed")
          /\ HttpError(r, StatusInternalServerError)
          /\ contacts' = [contacts EXCEPT ![r].get = @ + 1]
       \/ \E status \in GetStatuses :
            \E respGet \in GetResponses(upstream[loc[r].targetUrl], status) :
               /\ contacts' = [contacts EXCEPT ![r].get = @ + 1, ![r].status = respGet.status]
               /\ IF IsUpstreamError(respGet.status)
                  THEN /\ Return(r, "upstream_error")
                       /\ HttpError(r, respGet.status)
                  ELSE /\ pc' = [pc EXCEPT ![r] = "streamed"]
                       /\ loc' = [loc EXCEPT ![r].respGet = respGet]
                       /\ UNCHANGED client
    /\ UNCHANGED <<warm, upstream, changes, cacheitem, nextRowid, files, dirs>>

\* httpClient.Get(targetUrl): a transport failure answers 500, a status of
\* 400 or above is passed on to the client.
Fetch(r) ==
    /\ pc[r] = "miss"
    /\ \/ /\ Return(r, "get_failed")
          /\ HttpError(r, StatusInternalServerError)
          /\ contacts' = [contacts EXCEPT ![r].get = @ + 1]
       \/ \E status \in GetStatuses :
            \E respGet \in GetResponses(upstream[loc[r].targetUrl], status) :
               /\ contacts' = [contacts EXCEPT ![r].get = @ + 1, ![r].status = respGet.status]
               /\ IF IsUpstreamError(respGet.status)
                  THEN /\ Return(r, "upstream_error")
                       /\ HttpError(r, respGet.status)
                  ELSE /\ pc' = [pc EXCEPT ![r] = "fetched"]
                       /\ loc' = [loc EXCEPT ![r].respGet = respGet]
                       /\ UNCHANGED client
    /\ UNCHANGED <<warm, upstream, changes, cacheitem, nextRowid, files, dirs>>

\* The directory of each path prepareCacheDir derives.
ParentDir == [p \in { CachePath[u] : u \in RoutablePaths } |-> Dir(p)]

\* os.Create(cachePath): creates the file or truncates the one there.  It
\* fails on the empty path, on a path that is a directory or whose
\* directory is missing, and may fail on any other (no descriptor left, no
\* space, no permission); a failure answers 500.
Create(r) ==
    /\ pc[r] = "fetched"
    /\ LET path == loc[r].cachePath
           cannot == path = <<>> \/ path \in dirs \/ ParentDir[path] \notin dirs
       IN \E createOk \in BOOLEAN :
            IF cannot \/ ~createOk
            THEN /\ Return(r, "create_failed")
                 /\ HttpError(r, StatusInternalServerError)
                 /\ UNCHANGED files
            ELSE /\ files' = (path :> <<>>) @@ files
                 /\ pc' = [pc EXCEPT ![r] = "copying"]
                 /\ loc' = [loc EXCEPT ![r].written = 0]
                 /\ UNCHANGED client
    /\ UNCHANGED <<warm, upstream, changes, cacheitem, nextRowid, dirs, contacts>>

\* One round of io.Copy(io.MultiWriter(w, file), respGet.Body): a chunk is
\* read and written to the client, then to the file at this handler's file
\* offset.  A failed read or client write ends the copy before the chunk
\* reaches either sink, a failed file write after the client has it.  The
\* round that moves the last chunk ends the copy: with success when the
\* body ends after it, with an error when the read that looks for the end
\* of the body fails.
Copy(r) ==
    /\ pc[r] = "copying"
    /\ LET chunk == loc[r].respGet.body[loc[r].written + 1]
           sent == [status |-> StatusOK, body |-> Append(client[r].body, chunk)]
       IN \/ /\ client' = [client EXCEPT ![r] = sent]
             /\ files' = [files EXCEPT ![loc[r].cachePath] = WriteAt(@, loc[r].written, chunk)]
             /\ loc' = [loc EXCEPT ![r].written = @ + 1]
             /\ pc' = [pc EXCEPT ![r] = IF loc[r].written + 1 = Len(loc[r].respGet.body)
                                        THEN "streamed" ELSE "copying"]
          \/ /\ client' = [client EXCEPT ![r].status = StatusOK]
             /\ Return(r, "stream_failed")
             /\ UNCHANGED files
          \/ /\ client' = [client EXCEPT ![r] = sent]
             /\ Return(r, "stream_failed")
             /\ UNCHANGED files
          \/ /\ loc[r].written + 1 = Len(loc[r].respGet.body)
             /\ client' = [client EXCEPT ![r] = sent]
             /\ files' = [files EXCEPT ![loc[r].cachePath] = WriteAt(@, loc[r].written, chunk)]
             /\ Return(r, "stream_failed")
    /\ UNCHANGED <<warm, upstream, changes, cacheitem, nextRowid, dirs, contacts>>

\* updateCache, first statement: SELECT COUNT of the key's rows, outside
\* the transaction.  A failed query ends updateCache with an error, which
\* mainHandler logs.
UpdateCacheCount(r) ==
    /\ pc[r] = "streamed"
    /\ \E queryOk \in BOOLEAN :
         IF queryOk
         THEN /\ pc' = [pc EXCEPT ![r] = "counted"]
              /\ loc' = [loc EXCEPT ![r].count =
                           Cardinality(ItemRows(cacheitem, loc[r].repoName, loc[r].rest))]
         ELSE Return(r, "persist_failed")
    /\ UNCHANGED <<warm, upstream, changes, cacheitem, nextRowid, files, dirs, client, contacts>>

\* updateCache, Begin and Exec: the statement is INSERT when the count read
\* was 0, UPDATE otherwise.  A failed Begin ends updateCache with an error.
\* An INSERT takes its rowid from the sequence when it is executed; an
\* UPDATE rewrites the rows of the key that are committed when it is
\* executed, and waits for the transactions that are rewriting one of them
\* (READ COMMITTED, row locks).  Nothing shows in the table before Commit.
\* The error of Exec is dropped: Commit is called whatever Exec returned.
UpdateCacheExec(r) ==
    /\ pc[r] = "counted"
    /\ \/ /\ Return(r, "persist_failed")
          /\ UNCHANGED nextRowid
       \/ /\ pc' = [pc EXCEPT ![r] = "executed"]
          /\ loc' = [loc EXCEPT ![r].execOk = FALSE]
          /\ UNCHANGED nextRowid
       \/ /\ pc' = [pc EXCEPT ![r] = "executed"]
          /\ IF loc[r].count = 0
             THEN /\ loc' = [loc EXCEPT ![r].execOk = TRUE, ![r].rowid = nextRowid]
                  /\ nextRowid' = nextRowid + 1
             ELSE LET found == { row.rowid : row \in ItemRows(cacheitem, loc[r].repoName,
                                                              loc[r].rest) }
                  IN /\ loc' = [loc EXCEPT
                                  ![r].execOk = TRUE,
                                  ![r].targets = found,
                                  ![r].after = { q \in Requests \ {r} :
                                                   /\ pc[q] = "executed"
                                                   /\ loc[q].execOk
                                                   /\ loc[q].targets \cap found # {} }]
                     /\ UNCHANGED nextRowid
    /\ UNCHANGED <<warm, upstream, changes, cacheitem, files, dirs, client, contacts>>

\* What the transaction of request r writes when it commits.
Committed(r) ==
    LET d == ResolveDescriptor(loc[r].respGet, loc[r].contentLength)
    IN IF loc[r].count = 0
       THEN InsertRow(cacheitem, loc[r].rowid, loc[r].repoName, loc[r].rest, d)
       ELSE UpdateRows(cacheitem, loc[r].targets, d)

\* updateCache's error handed to the client: a failed Commit answers 500 in
\* place of what the client was sent.
UpdateCacheCommitSurfacingError(r) ==
    /\ pc[r] = "executed"
    /\ \A q \in loc[r].after : pc[q] # "executed"
    /\ \/ /\ loc[r].execOk
          /\ cacheitem' = Committed(r)
          /\ Return(r, "persisted")
          /\ UNCHANGED client
       \/ /\ loc[r].execOk
          /\ cacheitem' = Committed(r)
          /\ Return(r, "persist_failed")
          /\ HttpError(r, StatusInternalServerError)
       \/ /\ UNCHANGED cacheitem
          /\ Return(r, "persist_failed")
          /\ HttpError(r, StatusInternalServerError)
    /\ UNCHANGED <<warm, upstream, changes, nextRowid, files, dirs, contacts>>

\* updateCache, Commit, once the transactions its UPDATE waits for have
\* ended.  After a statement that was executed the transaction commits and
\* its rows show, all at once; or Commit fails and the table stays as it
\* was; or the transaction commits and Commit returns an error all the same
\* (the connection breaks before the answer).  After a failed Exec Commit
\* fails.  mainHandler logs the error and returns.
UpdateCacheCommit(r) ==
    /\ pc[r] = "executed"
    /\ \A q \in loc[r].after : pc[q] # "executed"
    /\ \/ /\ loc[r].execOk
          /\ cacheitem' = Committed(r)
          /\ Return(r, "persisted")
       \/ /\ loc[r].execOk
          /\ cacheitem' = Committed(r)
          /\ Return(r, "persist_failed")
       \/ /\ UNCHANGED cacheitem
          /\ Return(r, "persist_failed")
    /\ UNCHANGED <<warm, upstream, changes, nextRowid, files, dirs, client, contacts>>

\* The upstream replaces a file by its other version.
UpstreamChange ==
    /\ changes < MaxChanges
    /\ changes' = changes + 1
    /\ \E t \in Targets :
         upstream' = [upstream EXCEPT ![t] = CHOOSE v \in Versions : v # @]
    /\ UNCHANGED <<warm, cacheitem, nextRowid, files, dirs, pc, loc, client, contacts>>

Next ==
    \/ \E r \in Requests : Route(r)
    \/ \E r \in Requests : Probe(r)
    \/ \E r \in Requests : PrepareCacheDir(r)
    \/ \E r \in Requests : ItemInCache(r)
    \/ \E r \in Requests : Classify(r)
    \/ \E r \in Requests : ServeOpen(r)
    \/ \E r \in Requests : ServeRead(r)
    \/ \E r \in Requests : Fetch(r)
    \/ \E r \in Requests : Create(r)
    \/ \E r \in Requests : Copy(r)
    \/ \E r \in Requests : UpdateCacheCount(r)
    \/ \E r \in Requests : UpdateCacheExec(r)
    \/ \E r \in Requests : UpdateCacheCommit(r)
    \/ UpstreamChange

Spec == Init /\ [][Next]_vars

\* The same server started on the cache whose blob was removed.
SpecBlobRemoved == InitBlobRemoved /\ [][Next]_vars

\* The same server when its clients send one request at a time: a request
\* arrives only when no handler is running.
Idle == \A q \in Requests : pc[q] \in Terminal \cup {"start"}

RouteIdle(r) == Idle /\ Route(r)

NextSeq ==
    \/ \E r \in Requests : RouteIdle(r)
    \/ \E r \in Requests : Probe(r)
    \/ \E r \in Requests : PrepareCacheDir(r)
    \/ \E r \in Requests : ItemInCache(r)
    \/ \E r \in Requests : Classify(r)
    \/ \E r \in Requests : ServeOpen(r)
    \/ \E r \in Requests : ServeRead(r)
    \/ \E r \in Requests : Fetch(r)
    \/ \E r \in Requests : Create(r)
    \/ \E r \in Requests : Copy(r)
    \/ \E r \in Requests : UpdateCacheCount(r)
    \/ \E r \in Requests : UpdateCacheExec(r)
    \/ \E r \in Requests : UpdateCacheCommit(r)
    \/ UpstreamChange

SpecSeq == Init /\ [][NextSeq]_vars

\* The steps of the handler of request r once the request has arrived.
Handler(r) ==
    \/ Probe(r) \/ PrepareCacheDir(r) \/ ItemInCache(r) \/ Classify(r)
    \/ ServeOpen(r) \/ ServeRead(r) \/ Fetch(r)
    \/ Create(r) \/ Copy(r) \/ UpdateCacheCount(r)
    \/ UpdateCacheExec(r) \/ UpdateCacheCommit(r)

\* The server, its clients sending one request at a time, with its
\* handlers scheduled fairly: net/http runs every handler in a goroutine of
\* its own, the Go scheduler lets every runnable goroutine run, and every
\* call a handler waits in (upstream, database, file system) returns, with
\* an answer or an error.
SpecSeqLive == SpecSeq /\ \A r \in Requests : WF_vars(Handler(r))

----------------------------------------------------------------------------
(* Properties.                                                             *)

\* The file path prepareCacheDir derives for a request path.
PathOf(url) == Join(cacheDir, RepoName(url), Rest(url))

\* The rows of the key of a request path.
RowsOf(url) == ItemRows(cacheitem, RepoName(url), Rest(url))

\* The entity tag a successful fetch of version v stores.
StoredEtag(v) == ResolveDescriptor(GetResponse(v, StatusOK), 0).etag

IsProperPrefix(p, s) == Len(p) < Len(s) /\ SubSeq(s, 1, Len(p)) = p

(* C1: in every reachable state the Metadata Index holds at most one       *)
(* descriptor per (repository, path): no two rows of cacheitem share their *)
(* reponame and pathname.  Two handlers that both count 0 rows both        *)
(* INSERT, and the table has no unique constraint on the key.              *)
C1_AtMostOneDescriptorPerKey ==
    \A a, b \in cacheitem :
        (a.reponame = b.reponame /\ a.pathname = b.pathname) => a = b

(* C2: a request classified HIT that has been sent the file is never sent  *)
(* a proper prefix (the empty truncation included) of the body that a MISS *)
(* request for the same key is still streaming into the blob.              *)
C2_HitNeverReadsPartialBlob ==
    [][\A r \in Requests :
         (pc[r] \in {"hit", "serving"} /\ pc'[r] = "served"
            /\ client'[r].status = StatusOK) =>
            \A m \in Requests \ {r} :
                (pc[m] = "copying" /\ loc[m].cachePath = loc[r].cachePath) =>
                    ~IsProperPrefix(client'[r].body, loc[m].respGet.body)]_vars

(* C3: whenever a request classified HIT has been sent the file, the body  *)
(* it was sent is the complete body of the one fetch whose headers         *)
(* produced the descriptor it matched (the version whose stored entity tag *)
(* the descriptor carries).                                                *)
C3_HitServesBodyOfDescriptorsFetch ==
    [][\A r \in Requests :
         (pc[r] \in {"hit", "serving"} /\ pc'[r] = "served"
            /\ client'[r].status = StatusOK) =>
            \E v \in Versions :
                /\ loc[r].cachedEtag = StoredEtag(v)
                /\ client'[r].body = Body(v)]_vars

\* The probe of request r equals the three fields (lm, size, tag).
ProbeEquals(r, lm, size, tag) ==
    loc[r].lastMod = lm /\ loc[r].contentLength = size /\ loc[r].etag = tag

(* C4, for a server that may have started on a cache changed behind it     *)
(* (SpecBlobRemoved), and read with the two rules that a failed lookup     *)
(* (C11) and a failed directory preparation (C18) make a request a MISS:   *)
(* the lookup reports a match only when a descriptor of the key has        *)
(* lastModified, fileSize and etag equal to the probe's, and a lookup that *)
(* returned a descriptor reports a match exactly when that descriptor's    *)
(* three fields equal the probe's; a request whose probe succeeded is then *)
(* classified HIT if and only if the lookup reported a match, its          *)
(* directory was prepared and the blob is present at the derived path, and *)
(* MISS in every other case.                                               *)
C4_HitIffDescriptorMatchesAndBlobPresent ==
    [][\A r \in Requests :
         /\ (pc[r] = "prepared" /\ pc'[r] = "looked") =>
               /\ loc'[r].inCache =>
                     \E row \in RowsOf(loc[r].url) :
                         ProbeEquals(r, row.lastmodified, row.filesize, row.etag)
               /\ loc'[r].scanned =>
                     (loc'[r].inCache <=>
                         ProbeEquals(r, loc'[r].cachedLastMod, loc'[r].cachedFileSize,
                                     loc'[r].cachedEtag))
         /\ (pc[r] = "looked" /\ pc'[r] # "looked") =>
               pc'[r] = IF /\ loc[r].inCache
                           /\ loc[r].cachePath # <<>>
                           /\ PathOf(loc[r].url) \in DOMAIN files
                        THEN "hit" ELSE "miss"]_vars

(* C5, for requests sent one at a time (SpecSeq): after a MISS request    *)
(* has fetched, streamed and persisted, the next request for the same key  *)
(* whose probe is that of the version just fetched, and whose directory    *)
(* preparation and index lookup succeed, is classified HIT (and so served  *)
(* from the Blob Store), whatever the validators of that version are.      *)
C5_NextRequestWithUnchangedProbeIsHit ==
    [][\A r \in Requests \ {1} :
         ( /\ pc[r - 1] = "persisted"
           /\ loc[r - 1].url = loc[r].url
           /\ pc[r] = "looked" /\ pc'[r] # "looked"
           /\ loc[r].cachePath # <<>>
           /\ loc[r].scanned
           /\ \E v \in Versions :
                /\ \A row \in RowsOf(loc[r].url) : row.etag = StoredEtag(v)
                /\ ProbeEquals(r, HeadResponse(v).lastMod,
                               ParseInt(HeadResponse(v).contentLength),
                               HeadResponse(v).etag) )
         => pc'[r] = "hit"]_vars

(* C6: a request classified HIT (the lookup matched and the blob is there) *)
(* has issued no full upstream fetch and issues none, while it is sent the *)
(* file or later; its steps leave the Metadata Index and the Blob Store as *)
(* they were; and once the file has been sent, in full or until its client *)
(* went away, the request has ended.                                       *)
C6_HitFetchesNothingAndChangesNothing ==
    [][\A r \in Requests :
         /\ (pc[r] = "looked" /\ pc'[r] # "looked"
               /\ loc[r].inCache /\ loc[r].cachePath \in DOMAIN files) =>
               /\ pc'[r] = "hit"
               /\ cacheitem' = cacheitem
               /\ files' = files
         /\ pc[r] \in {"hit", "serving"} =>
               /\ pc'[r] \in {"hit", "serving", "served", "serve_aborted"}
               /\ contacts[r].get = 0
               /\ contacts'[r] = contacts[r]
               /\ (pc'[r] # pc[r] \/ loc'[r] # loc[r]) =>
                     (cacheitem' = cacheitem /\ files' = files)
         /\ pc[r] \in {"served", "serve_aborted"} =>
               /\ pc'[r] = pc[r]
               /\ contacts'[r] = contacts[r]]_vars

\* A request was sent the whole blob after one probe and no fetch.
C6_Witness ==
    \E r \in Requests :
        /\ pc[r] = "served"
        /\ client[r] = [status |-> StatusOK, body |-> Body(1)]
        /\ contacts[r].head = 1 /\ contacts[r].get = 0

(* C7: when a MISS request completes its stream copy, the bytes delivered  *)
(* to its client equal the bytes readable from the Blob Store at the path  *)
(* of its key.                                                             *)
C7_DeliveredBytesEqualStoredBytes ==
    [][\A r \in Requests :
         (pc[r] = "copying" /\ pc'[r] = "streamed") =>
            Blob(files', loc[r].cachePath) = client'[r].body]_vars

\* What the final path of a request path held when the server started.
InitialBlob(url) == IF warm /\ url = WarmUrl THEN Body(1) ELSE NoBlob

(* C8, for a request that ran alone: when its stream copy has failed       *)
(* mid-body, the blob at the final path of its key is what it was before   *)
(* the request (absent if there was none), never truncated or partial.     *)
C8_FailedCopyLeavesBlobUnchanged ==
    \A r \in Requests :
        (pc[r] = "stream_failed" /\ \A q \in Requests \ {r} : pc[q] = "start") =>
            Blob(files, PathOf(loc[r].url)) = InitialBlob(loc[r].url)

(* C9: when the full fetch is answered with a status of 400 or above, the  *)
(* request ends there with that status sent to the client; no step the     *)
(* request has taken, this one included, changes the Blob Store or the     *)
(* Metadata Index, and it takes no step after it.                          *)
C9_UpstreamErrorPassedOnWithoutCacheMutation ==
    [][\A r \in Requests :
         /\ (pc[r] = "miss" /\ pc'[r] # "miss" /\ contacts'[r].status >= 400) =>
               /\ pc'[r] = "upstream_error"
               /\ client'[r].status = contacts'[r].status
         /\ (pc[r] \in {"start", "routed", "probed", "prepared", "looked", "miss"}
               /\ pc'[r] # pc[r]) =>
               /\ files' = files
               /\ cacheitem' = cacheitem
         /\ pc[r] = "upstream_error" =>
               /\ pc'[r] = "upstream_error"
               /\ client'[r] = client[r]]_vars

\* A request whose fetch was answered 503 ended with 503 sent to its client.
C9_Witness ==
    \E r \in Requests :
        /\ pc[r] = "upstream_error"
        /\ contacts[r].status = 503
        /\ client[r].status = 503

(* C10: a request whose repository has no row in repomap is answered 404   *)
(* by its first step, which leaves the upstream, the Metadata Index and    *)
(* the Blob Store untouched; it never probes or fetches, then or later.    *)
C10_UnmappedRepositoryIs404WithoutContact ==
    [][\A r \in Requests :
         /\ (pc[r] = "start" /\ pc'[r] # "start"
               /\ ~\E m \in repomap : m.reponame = RepoName(loc'[r].url)) =>
               /\ pc'[r] = "not_found"
               /\ client'[r].status = 404
               /\ contacts'[r].head = 0 /\ contacts'[r].get = 0
               /\ UNCHANGED <<upstream, cacheitem, files, dirs>>
         /\ pc[r] = "not_found" =>
               /\ pc'[r] = "not_found"
               /\ contacts'[r] = contacts[r]
               /\ client'[r] = client[r]]_vars

(* C11: when the index lookup of a request finds no row or fails, the      *)
(* request is not answered at that point: it is classified MISS with its   *)
(* client still unanswered, and its next step is the full upstream fetch.  *)
C11_LookupFailureIsMissAndFetches ==
    [][\A r \in Requests :
         /\ (pc[r] = "prepared" /\ pc'[r] # "prepared"
               /\ (RowsOf(loc[r].url) = {} \/ ~loc'[r].scanned)) =>
               /\ pc'[r] = "looked"
               /\ ~loc'[r].inCache
               /\ client'[r] = client[r]
         /\ (pc[r] = "looked" /\ ~loc[r].scanned /\ pc'[r] # "looked") =>
               /\ pc'[r] = "miss"
               /\ client'[r] = client[r]
         /\ (pc[r] = "miss" /\ pc'[r] # "miss") =>
               contacts'[r].get = contacts[r].get + 1]_vars

\* With no descriptor stored at all, a request has got to its full fetch,
\* which was answered 200.
C11_Witness ==
    \E r \in Requests :
        /\ cacheitem = {}
        /\ pc[r] = "fetched"
        /\ contacts[r].get = 1 /\ contacts[r].status = 200

(* C12, for requests sent one at a time (SpecSeq): when updateCache fails  *)
(* after the stream copy has completed, the client keeps what it was sent  *)
(* (status 200 and the whole body of the fetch) and the request has ended: *)
(* it takes no further step and makes no further upstream call.  A later request for the key whose probe equals  *)
(* no stored descriptor of the key is classified MISS and fetches.         *)
C12_PersistFailureKeepsResponseAndNextMismatchRefetches ==
    [][\A r \in Requests :
         /\ (pc[r] \in {"streamed", "counted", "executed"} /\ pc'[r] # pc[r]) =>
               /\ pc'[r] \in {"counted", "executed", "persisted", "persist_failed"}
               /\ client'[r] = [status |-> StatusOK, body |-> loc[r].respGet.body]
         /\ pc[r] = "persist_failed" =>
               /\ pc'[r] = "persist_failed"
               /\ client'[r] = client[r]
               /\ contacts'[r] = contacts[r]
               /\ \A q \in Requests \ {r} :
                     loc[q].url = loc[r].url =>
                       /\ (pc[q] = "prepared" /\ pc'[q] = "looked"
                             /\ ~\E row \in RowsOf(loc[q].url) :
                                    ProbeEquals(q, row.lastmodified, row.filesize, row.etag))
                            => ~loc'[q].inCache
                       /\ (pc[q] = "looked" /\ ~loc[q].inCache /\ pc'[q] # "looked")
                            => pc'[q] = "miss"
                       /\ (pc[q] = "miss" /\ pc'[q] # "miss")
                            => contacts'[q].get = contacts[q].get + 1]_vars

\* The descriptor of a request's fetch could not be stored, its client has
\* the whole body with status 200, and the next request for the key, with
\* no descriptor to match, has fetched again.
C12_Witness ==
    \E r, q \in Requests :
        /\ r < q
        /\ pc[r] = "persist_failed"
        /\ client[r].status = StatusOK
        /\ client[r].body \in {Body(v) : v \in Versions}
        /\ cacheitem = {}
        /\ loc[q].url = loc[r].url
        /\ pc[q] = "fetched"
        /\ contacts[q].get = 1

(* C13: when updateCache has stored descriptor D for a key (INSERT or      *)
(* UPDATE, committed), a lookup of the key with no write in between        *)
(* returns D: every row itemInCache can scan for the key carries D's       *)
(* lastModified, fileSize and etag, whether or not the key had a           *)
(* descriptor before.                                                      *)
C13_GetAfterUpsertReturnsDescriptor ==
    [][\A r \in Requests :
         (pc[r] = "executed" /\ pc'[r] = "persisted") =>
            LET D == ResolveDescriptor(loc[r].respGet, loc[r].contentLength)
                rows == ItemRows(cacheitem', RepoName(loc[r].url), Rest(loc[r].url))
            IN /\ rows # {}
               /\ \A row \in rows :
                     /\ row.lastmodified = D.lastMod
                     /\ row.filesize = D.fileSize
                     /\ row.etag = D.etag]_vars

\* An entity tag with the weak-validator prefix removed.
StripWeak(etag) == TrimPrefix(etag, <<"W", "/">>)

(* C14: in the freshness decision a probe etag and a stored etag that      *)
(* differ only by the weak-validator prefix compare equal: when the lookup *)
(* returns a descriptor whose lastModified and fileSize equal the probe's  *)
(* and whose etag equals the probe's once the prefix is removed from both, *)
(* the lookup reports a match; and no stored etag carries the prefix.      *)
C14_WeakPrefixIgnoredInComparisonAndStorage ==
    [][\A r \in Requests :
         /\ (pc[r] = "prepared" /\ pc'[r] = "looked" /\ loc'[r].scanned
               /\ loc'[r].cachedLastMod = loc[r].lastMod
               /\ loc'[r].cachedFileSize = loc[r].contentLength
               /\ StripWeak(loc'[r].cachedEtag) = StripWeak(loc[r].etag))
            => loc'[r].inCache
         /\ \A row \in cacheitem' : ~HasPrefix(row.etag, <<"W", "/">>)]_vars

(* C15: the rows a successful MISS run writes carry the Last-Modified of   *)
(* the GET response, the GET response's ETag without its weak-validator    *)
(* prefix, and as fileSize the GET response's Content-Length (the length   *)
(* the upstream declares for the body), or the probe's content length      *)
(* exactly when the GET response has no Content-Length header; and the key *)
(* has such a row afterwards.                                              *)
C15_PersistedDescriptorComesFromGetHeaders ==
    [][\A r \in Requests :
         (pc[r] = "executed" /\ pc'[r] = "persisted") =>
            LET g == loc[r].respGet
                Expected(row) ==
                    /\ row.reponame = RepoName(loc[r].url)
                    /\ row.pathname = Rest(loc[r].url)
                    /\ row.lastmodified = g.lastMod
                    /\ row.etag = IF HasPrefix(g.etag, <<"W", "/">>)
                                  THEN SubSeq(g.etag, 3, Len(g.etag)) ELSE g.etag
                    /\ row.filesize = IF g.contentLength = <<>>
                                      THEN loc[r].contentLength ELSE Len(g.body)
            IN /\ \A row \in cacheitem' \ cacheitem : Expected(row)
               /\ \E row \in cacheitem' : Expected(row)]_vars

\* A request that probed version 1 (Content-Length 2) and fetched version 2
\* (weak etag, no Content-Length) has persisted (d1, 2, e2); in another run
\* the descriptor of version 1 carries the GET's Content-Length.
C15_Witness ==
    \E r \in Requests :
        /\ pc[r] = "persisted"
        /\ \E row \in RowsOf(loc[r].url) :
              /\ row.lastmodified = <<"d", "1">>
              /\ row.filesize = 2
              /\ row.etag = <<"e", "2">>

(* C16: when the probe of a request fails at the transport level, the      *)
(* request is answered 500 by that step, which leaves the Metadata Index,  *)
(* the Blob Store and the cache directories as they were, and the request  *)
(* has ended: it takes no further step and makes no full fetch.            *)
C16_FailedProbeEndsRequestWithoutAction ==
    [][\A r \in Requests :
         /\ (pc[r] = "routed" /\ pc'[r] # "routed") =>
               /\ pc'[r] \in {"probed", "head_failed"}
               /\ contacts'[r].head = 1
               /\ UNCHANGED <<cacheitem, files, dirs>>
               /\ pc'[r] = "probed" => loc'[r].lastMod # <<>>
               /\ pc'[r] = "head_failed" => client'[r].status = StatusInternalServerError
         /\ pc[r] = "head_failed" =>
               /\ pc'[r] = "head_failed"
               /\ client'[r] = client[r]
               /\ contacts'[r] = contacts[r]
               /\ contacts[r].get = 0]_vars

\* A request whose probe failed was answered 500 after one HEAD and no GET.
C16_Witness ==
    \E r \in Requests :
        /\ pc[r] = "head_failed"
        /\ client[r] = [status |-> StatusInternalServerError, body |-> <<>>]
        /\ contacts[r] = [head |-> 1, get |-> 0, status |-> 0]

\* The moves of one request through mainHandler that the state machine
\* START, ROUTED, PROBED, HIT or MISS, ..., terminal allows.
Allowed(from, to) ==
    \/ from = "start" /\ to \in {"routed", "not_found"}
    \/ from = "routed" /\ to \in {"probed", "head_failed"}
    \/ from = "probed" /\ to = "prepared"
    \/ from = "prepared" /\ to = "looked"
    \/ from = "looked" /\ to \in {"hit", "miss"}
    \/ from = "hit" /\ to \in {"serving", "served"}
    \/ from = "serving" /\ to \in {"served", "serve_aborted"}
    \/ from = "miss" /\ to \in {"fetched", "get_failed", "upstream_error"}
    \/ from = "fetched" /\ to \in {"copying", "create_failed"}
    \/ from = "copying" /\ to \in {"streamed", "stream_failed"}
    \/ from = "streamed" /\ to \in {"counted", "persist_failed"}
    \/ from = "counted" /\ to \in {"executed", "persist_failed"}
    \/ from = "executed" /\ to \in {"persisted", "persist_failed"}

(* C17, for requests sent one at a time and handlers scheduled fairly       *)
(* (SpecSeqLive): every request moves through its handler in the order     *)
(* START, ROUTED, PROBED, HIT or MISS and on to a terminal state, which it *)
(* never leaves; it makes at most one probe and at most one full fetch;    *)
(* the index changes only by the one upsert step of a request, taken after *)
(* its stream copy delivered the whole body; and every request that has    *)
(* arrived reaches a terminal state.                                       *)
C17_RequestFollowsStateMachineOnce ==
    /\ [][\A r \in Requests :
            /\ pc'[r] # pc[r] => Allowed(pc[r], pc'[r])
            /\ pc[r] \in Terminal => (pc'[r] = pc[r] /\ contacts'[r] = contacts[r])
            /\ contacts'[r].head <= 1 /\ contacts'[r].get <= 1
            /\ contacts'[r].head # contacts[r].head => pc[r] = "routed"
            /\ contacts'[r].get # contacts[r].get => pc[r] = "miss"
            /\ pc'[r] \in {"streamed", "counted", "executed"} =>
                  client'[r] = [status |-> StatusOK, body |-> loc'[r].respGet.body]]_vars
    /\ [][cacheitem' # cacheitem =>
            \E r \in Requests :
                pc[r] = "executed" /\ pc'[r] \in {"persisted", "persist_failed"}]_vars
    /\ \A r \in Requests : (pc[r] # "start") ~> (pc[r] \in Terminal)

(* C18: when prepareCacheDir has failed for a request (no path derived),   *)
(* the request is not answered at that point, it is classified MISS, it    *)
(* issues the full fetch, and when the fetch is answered with the body the *)
(* handler goes on to send that body to the client instead of ending the   *)
(* request with an error.                                                  *)
C18_FailedDirectoryPreparationStillServes ==
    [][\A r \in Requests :
         /\ (pc[r] = "probed" /\ pc'[r] # "probed") =>
               (pc'[r] = "prepared" /\ client'[r] = client[r])
         /\ (loc[r].cachePath = <<>> /\ pc[r] = "looked" /\ pc'[r] # "looked") =>
               (pc'[r] = "miss" /\ client'[r] = client[r])
         /\ (loc[r].cachePath = <<>> /\ pc[r] = "miss" /\ pc'[r] # "miss") =>
               contacts'[r].get = contacts[r].get + 1
         /\ (loc[r].cachePath = <<>> /\ pc[r] = "fetched" /\ pc'[r] # "fetched") =>
               (pc'[r] = "copying" /\ client'[r].status # StatusInternalServerError)]_vars

(* C19: in every reachable state, every descriptor in the Metadata Index   *)
(* has a blob file at the final path of its key (os.Create comes before    *)
(* updateCache, and nothing deletes a file).                               *)
C19_DescriptorImpliesBlob ==
    \A row \in cacheitem :
        Join(cacheDir, row.reponame, row.pathname) \in DOMAIN files

\* Started with an empty cache, the server has persisted a descriptor.
C19_Witness ==
    /\ ~warm
    /\ cacheitem # {}
    /\ \E r \in Requests : pc[r] = "persisted"

=============================================================================
